---- MODULE Spec2Model ----
(***************************************************************************)
(* Model of the Python binding of proxTV (src/prox_tv/__init__.py): the    *)
(* eight entry points tv1_1d, tv1w_1d, tv2_1d, tvp_1d, tv1_2d, tv1w_2d,    *)
(* tvp_2d and tvgen.  Each entry point validates its arguments, converts   *)
(* them, allocates the output and diagnostics buffers, invokes one native  *)
(* solver through _call and returns.  A state records the last call: its   *)
(* arguments, how it ended, the native invocations it made, the            *)
(* diagnostics buffer after the solver ran, and the objects it returned.   *)
(*                                                                         *)
(* Data.  A numpy array is the record [shape, dtype] (plus the values or   *)
(* the least element where the code reads them); a Python number is the    *)
(* record [t, v] of its type and value; the native solvers themselves are  *)
(* external C++ code and appear only through the arguments they receive    *)
(* and the diagnostics they write.                                         *)
(***************************************************************************)
EXTENDS Integers, Sequences, FiniteSets, TLC

VARIABLES entry, args, outcome, native, info, returned

vars == <<entry, args, outcome, native, info, returned>>

(* ----------------------------- bounds --------------------------------- *)

\* Largest extent of a signal along one axis (0 is the empty signal).
MaxExtent == 2
\* Largest rank (number of axes) of a signal.
MaxRank == 2
\* Largest number of penalty terms handed to tvgen.
MaxTerms == 3

(* -------------------------- program constants ------------------------- *)

\* _N_INFO: the number of slots of the diagnostics buffer.
_N_INFO == 3

(* ------------------------------ data ---------------------------------- *)

PyInt(v) == [t |-> "int", v |-> v]
PyFloat(v) == [t |-> "float", v |-> v]

\* A Python tuple of numbers of one type, such as (w, w): its values, in the
\* layout of an array record.
PyTuple(t, vals) == [kind |-> "tuple", dtype |-> t, vals |-> vals]

\* a[i] for a numpy array a: a scalar of the array's dtype (i counts from 1).
Item(a, i) == [t |-> a.dtype, v |-> a.vals[i]]

\* force_float_scalar: float(x) unless x is a float already.
force_float_scalar(x) == IF x.t # "float" THEN [t |-> "float", v |-> x.v] ELSE x

\* force_float_matrix: x.astype('float') unless the dtype is float64 already.
force_float_matrix(x) ==
    IF x.dtype # "float64" THEN [x EXCEPT !.dtype = "float64"] ELSE x

\* np.asfortranarray(x, dtype='float64'): same shape, float64.
asfortranarray(x) == [x EXCEPT !.dtype = "float64"]

RECURSIVE Prod(_)
Prod(s) == IF s = <<>> THEN 1 ELSE Head(s) * Prod(Tail(s))

\* np.size(x): the number of elements.
size(x) == Prod(x.shape)

\* np.zeros(shape): a fresh float64 array.
zeros(shape) == [shape |-> shape, dtype |-> "float64"]

zeros_shape(x) == zeros(x.shape)

\* np.zeros(np.size(x)): the flat output buffer of the 1-D entry points.
zeros_size(x) == zeros(<<size(x)>>)

\* np.all(w >= 0) for an array given by its values.
all_nonneg(w) == \A i \in 1..Len(w.vals) : w.vals[i] >= 0

\* np.all(w >= 0) for a matrix given by its least element (vacuous when empty).
all_nonneg_m(w) == size(w) = 0 \/ w.lo >= 0

\* Python's a & b on non-negative integers.
RECURSIVE BitAnd(_, _)
BitAnd(a, b) ==
    IF a = 0 \/ b = 0 THEN 0
    ELSE (a % 2) * (b % 2) + 2 * BitAnd(a \div 2, b \div 2)

(* ----------------------- the native solvers --------------------------- *)

\* What an iterative solver may leave in the diagnostics: it converged
\* (gap 0) or it stopped at the iteration cap (gap above the tolerance).
SolverRuns == { [iters |-> 1, gap |-> 0], [iters |-> 2, gap |-> 1] }

\* The diagnostics buffer np.zeros(_N_INFO) after the solver wrote into it.
FilledInfo(run) ==
    [i \in 1.._N_INFO |-> IF i = 1 THEN run.iters ELSE IF i = 2 THEN run.gap ELSE 0]

(* ----------------------- how a call ends ------------------------------ *)

\* An exception leaves the entry point: nothing is returned.
Raise(exc, nat) ==
    [outcome |-> exc, native |-> nat, info |-> <<>>, returned |-> <<>>]

Returned_with_info(y, inf) == <<y, inf>>

\* `return y`: the objects handed back to the caller.
Returned(y, inf) == <<y>>

Done(y, nat, inf) ==
    [outcome |-> "returned", native |-> nat, info |-> inf,
     returned |-> Returned(y, inf)]

(* ------------------------------ inputs -------------------------------- *)

Shapes == UNION { [1..r -> 0..MaxExtent] : r \in 1..MaxRank }
Dtypes == {"float64", "int64"}
Signals == { [shape |-> s, dtype |-> d] : s \in Shapes, d \in Dtypes }

Weights == { PyInt(-1), PyInt(0), PyFloat(1) }
Norms == { PyInt(0), PyInt(1), PyFloat(2) }
Sigmas == { "0.05" }
ThreadCounts == { 0, 1, 2 }
IterCaps == { -1, 0, 5 }
\* The (n_threads, max_iters) pairs tried where the other arguments are many:
\* the defaults, a valid non-default pair, and each limit violated alone.
Limits ==
    { [n_threads |-> 1, max_iters |-> 0], [n_threads |-> 2, max_iters |-> 5],
      [n_threads |-> 0, max_iters |-> 0], [n_threads |-> 1, max_iters |-> -1] }
Values(S, n) == UNION { [1..k -> S] : k \in 0..n }

(* ------------------------------ tv1_1d -------------------------------- *)

Methods_tv1_1d == {"tautstring", "pn", "condat", "dp"}

tv1_1d_call(x, w, sigma, method, run) ==
    IF method \notin Methods_tv1_1d THEN Raise("AssertionError", <<>>)
    ELSE IF ~(w.v >= 0) THEN Raise("AssertionError", <<>>)
    ELSE LET wf == force_float_scalar(w)
             xf == force_float_matrix(x)
             y  == zeros_size(xf)
         IN  IF method = "tautstring"
             THEN Done(y, << [fn |-> "tautString_TV1", y |-> xf, lambda |-> wf,
                              x |-> y, n |-> size(xf)] >>, <<>>)
             ELSE IF method = "pn"
             THEN Done(y, << [fn |-> "PN_TV1", y |-> xf, lambda |-> wf, x |-> y,
                              info |-> zeros(<<_N_INFO>>), n |-> size(xf),
                              sigma |-> sigma, ws |-> "NULL"] >>,
                       FilledInfo(run))
             ELSE IF method = "condat"
             THEN Done(y, << [fn |-> "TV1D_denoise", input |-> xf, output |-> y,
                              width |-> size(xf), lambda |-> wf] >>, <<>>)
             ELSE Done(y, << [fn |-> "dp", n |-> size(xf), y |-> xf, lam |-> wf,
                              beta |-> y] >>, <<>>)

(* ------------------------------ tv1w_1d ------------------------------- *)

\* The weight vectors tried: up to MaxExtent weights, negative or positive.
WeightVectors ==
    { [vals |-> v, dtype |-> d] : v \in Values({-1, 1}, MaxExtent), d \in Dtypes }

tv1w_1d_call(x, w, method, sigma, run) ==
    IF ~all_nonneg(w) THEN Raise("AssertionError", <<>>)
    ELSE IF size(x) - 1 # Len(w.vals) THEN Raise("AssertionError", <<>>)
    ELSE LET wf == force_float_matrix(w)
             xf == force_float_matrix(x)
             y  == zeros_size(xf)
         IN  IF method = "tautstring"
             THEN Done(y, << [fn |-> "tautString_TV1_Weighted", y |-> xf,
                              lambda |-> wf, x |-> y, n |-> size(xf)] >>, <<>>)
             ELSE Done(y, << [fn |-> "PN_TV1_Weighted", Y |-> xf, W |-> wf,
                              X |-> y, info |-> zeros(<<_N_INFO>>),
                              n |-> size(xf), sigma |-> sigma, ws |-> "NULL"] >>,
                       FilledInfo(run))

(* ------------------------------ tv2_1d -------------------------------- *)

Methods_tv2_1d == {"ms", "pg", "mspg"}

tv2_1d_call(x, w, method, run) ==
    IF ~(w.v >= 0) THEN Raise("AssertionError", <<>>)
    ELSE IF method \notin Methods_tv2_1d THEN Raise("AssertionError", <<>>)
    ELSE LET wf == force_float_scalar(w)
             xf == force_float_matrix(x)
             y  == zeros_size(xf)
         IN  IF method = "ms"
             THEN Done(y, << [fn |-> "more_TV2", y |-> xf, lambda |-> wf, x |-> y,
                              info |-> zeros(<<_N_INFO>>), n |-> size(xf)] >>,
                       FilledInfo(run))
             ELSE IF method = "pg"
             THEN Done(y, << [fn |-> "PG_TV2", y |-> xf, lambda |-> wf, x |-> y,
                              info |-> zeros(<<_N_INFO>>), n |-> size(xf)] >>,
                       FilledInfo(run))
             ELSE Done(y, << [fn |-> "morePG_TV2", y |-> xf, lambda |-> wf,
                              x |-> y, info |-> zeros(<<_N_INFO>>),
                              n |-> size(xf), ws |-> "NULL"] >>,
                       FilledInfo(run))

(* ------------------------------ tvp_1d -------------------------------- *)

\* The keys of the dict `methods` and the solver each one names.
Methods_tvp_1d == {"gp", "fw", "gpfw"}

methods_tvp_1d(method) ==
    IF method = "gp" THEN "GP_TVp" ELSE IF method = "fw" THEN "FW_TVp" ELSE "GPFW_TVp"

tvp_1d_call(x, w, p, method, max_iters, run) ==
    IF method \notin Methods_tvp_1d THEN Raise("AssertionError", <<>>)
    ELSE IF ~(w.v >= 0) THEN Raise("AssertionError", <<>>)
    ELSE IF ~(p.v >= 1) THEN Raise("AssertionError", <<>>)
    ELSE LET wf == force_float_scalar(w)
             pf == force_float_scalar(p)
             xf == force_float_matrix(x)
             y  == zeros_size(xf)
         IN  Done(y, << [fn |-> methods_tvp_1d(method), y |-> xf, lambda |-> wf,
                         x |-> y, info |-> zeros(<<_N_INFO>>), n |-> size(xf),
                         p |-> pf, ws |-> "NULL"] >>,
                  FilledInfo(run))

(* ------------------------------ tv1_2d -------------------------------- *)

Methods_tv1_2d == {"dr", "pd", "yang", "condat", "chambolle-pock"}

tv1_2d_call(x, w, n_threads, max_iters, method, run) ==
    IF ~(w.v >= 0) THEN Raise("AssertionError", <<>>)
    ELSE IF method \notin Methods_tv1_2d THEN Raise("AssertionError", <<>>)
    ELSE LET xf == asfortranarray(x)
             wf == force_float_scalar(w)
             y  == zeros(xf.shape)
         IN  IF method = "pd"
             THEN Done(y, << [fn |-> "PD2_TV", y |-> xf, lambdas |-> PyTuple(wf.t, <<wf.v, wf.v>>),
                              norms |-> PyTuple("int", <<1, 1>>),
                              dims |-> <<1, 2>>,
                              x |-> y, info |-> zeros(<<_N_INFO>>),
                              ns |-> xf.shape, nds |-> 2, npen |-> 2,
                              ncores |-> n_threads, maxIters |-> max_iters] >>,
                       FilledInfo(run))
             \* the other branches read x.shape[0] and x.shape[1]
             ELSE IF Len(xf.shape) < 2 THEN Raise("IndexError", <<>>)
             ELSE IF method = "yang"
             THEN Done(y, << [fn |-> "Yang2_TV", M |-> xf.shape[1],
                              N |-> xf.shape[2], Y |-> xf, lambda |-> wf,
                              X |-> y, maxit |-> max_iters,
                              info |-> zeros(<<_N_INFO>>)] >>,
                       FilledInfo(run))
             ELSE IF method = "dr"
             THEN Done(y, << [fn |-> "DR2_TV", M |-> xf.shape[1],
                              N |-> xf.shape[2], unary |-> xf, W1 |-> wf,
                              W2 |-> wf, norm1 |-> PyFloat(1),
                              norm2 |-> PyFloat(1), s |-> y,
                              nThreads |-> n_threads, maxit |-> max_iters,
                              info |-> zeros(<<_N_INFO>>)] >>,
                       FilledInfo(run))
             ELSE Done(y, << [fn |-> "CondatChambollePock2_TV",
                              M |-> xf.shape[1], N |-> xf.shape[2], Y |-> xf,
                              lambda |-> wf, X |-> y,
                              alg |-> IF method = "condat" THEN 0 ELSE 1,
                              maxit |-> max_iters,
                              info |-> zeros(<<_N_INFO>>)] >>,
                       FilledInfo(run))

(* ------------------------------ tv1w_2d ------------------------------- *)

\* The weight matrices tried with the signal x: the shapes next to x's own
\* (one row less, one column less, the same), each with a least element that
\* is negative or not.
NearShapes(x) ==
    IF Len(x.shape) = 2
    THEN { s \in { <<x.shape[1] - 1, x.shape[2]>>, <<x.shape[1], x.shape[2] - 1>>,
                   <<x.shape[1], x.shape[2]>> } : s[1] >= 0 /\ s[2] >= 0 }
    ELSE { <<1, 1>> }

WeightMatrices(x) ==
    { [shape |-> s, dtype |-> "float64", lo |-> l] :
        s \in NearShapes(x), l \in {-1, 0} }

tv1w_2d_call(x, w_col, w_row, max_iters, n_threads, run) ==
    IF ~all_nonneg_m(w_col) THEN Raise("AssertionError", <<>>)
    ELSE IF ~all_nonneg_m(w_row) THEN Raise("AssertionError", <<>>)
    \* M, N = x.shape
    ELSE IF Len(x.shape) # 2 THEN Raise("ValueError", <<>>)
    ELSE LET M == x.shape[1]
             N == x.shape[2]
         IN  IF w_col.shape # <<M - 1, N>> THEN Raise("AssertionError", <<>>)
             ELSE IF w_row.shape # <<M, N - 1>> THEN Raise("AssertionError", <<>>)
             ELSE LET xf == asfortranarray(x)
                      y  == zeros(xf.shape)
                      wc == asfortranarray(w_col)
                      wr == asfortranarray(w_row)
                  IN  Done(y, << [fn |-> "DR2L1W_TV", M |-> M, N |-> N,
                                  unary |-> xf, W1 |-> wc, W2 |-> wr, s |-> y,
                                  nThreads |-> n_threads, maxit |-> max_iters,
                                  info |-> zeros(<<_N_INFO>>)] >>,
                           FilledInfo(run))

(* ------------------------------ tvp_2d -------------------------------- *)

tvp_2d_call(x, w_col, w_row, p_col, p_row, n_threads, max_iters, run) ==
    IF ~(w_col.v >= 0) THEN Raise("AssertionError", <<>>)
    ELSE IF ~(w_row.v >= 0) THEN Raise("AssertionError", <<>>)
    ELSE IF ~(p_col.v >= 1) THEN Raise("AssertionError", <<>>)
    ELSE IF ~(p_row.v >= 1) THEN Raise("AssertionError", <<>>)
    ELSE LET xf == asfortranarray(x)
             y  == zeros(xf.shape)
         IN  \* x.shape[0], x.shape[1]
             IF Len(xf.shape) < 2 THEN Raise("IndexError", <<>>)
             ELSE Done(y, << [fn |-> "DR2_TV", M |-> xf.shape[1],
                              N |-> xf.shape[2], unary |-> xf,
                              W1 |-> force_float_scalar(w_col),
                              W2 |-> force_float_scalar(w_row),
                              norm1 |-> force_float_scalar(p_col),
                              norm2 |-> force_float_scalar(p_row), s |-> y,
                              nThreads |-> n_threads, maxit |-> max_iters,
                              info |-> zeros(<<_N_INFO>>)] >>,
                       FilledInfo(run))

(* ------------------------------- tvgen -------------------------------- *)

\* `len(ds) == 2 & ds[0] == 1 & ds[1] == 2`: & binds tighter than ==, so this
\* is the chained comparison len(ds) == (2 & ds[0]) == (1 & ds[1]) == 2,
\* evaluated left to right and stopping at the first comparison that fails.
\* ds is not empty here (ds[0] has been read).
dr_condition(ds) ==
    /\ Len(ds) = BitAnd(2, ds[1])
    /\ BitAnd(2, ds[1]) = BitAnd(1, ds[2])
    /\ BitAnd(1, ds[2]) = 2

tvgen_solver_off_by_one(ws, ds) ==
    IF dr_condition(ds) THEN "DR2_TV"
    ELSE IF Len(ws.vals) >= 2 THEN "PD2_TV"
    ELSE "PD_TV"

\* The if / elif / else of tvgen: the solver it runs.
tvgen_solver(ws, ds) ==
    IF dr_condition(ds) THEN "DR2_TV"
    ELSE IF Len(ws.vals) = 2 THEN "PD2_TV"
    ELSE "PD_TV"

tvgen_call(x, ws, ds, ps, n_threads, max_iters, run) ==
    IF Len(ws.vals) # Len(ds) THEN Raise("AssertionError", <<>>)
    ELSE IF Len(ws.vals) # Len(ps.vals) THEN Raise("AssertionError", <<>>)
    ELSE IF ~(n_threads >= 1) THEN Raise("AssertionError", <<>>)
    ELSE IF ~(max_iters >= 0) THEN Raise("AssertionError", <<>>)
    \* force_float_matrix(ws), force_float_matrix(ps) read .dtype
    ELSE IF ws.kind # "ndarray" THEN Raise("AttributeError", <<>>)
    ELSE IF ps.kind # "ndarray" THEN Raise("AttributeError", <<>>)
    ELSE LET xf  == asfortranarray(x)
             wsf == force_float_matrix(ws)
             psf == force_float_matrix(ps)
             y   == zeros(xf.shape)
         IN  \* ds[0] in the condition of the if
             IF Len(ds) = 0 THEN Raise("IndexError", <<>>)
             ELSE IF tvgen_solver(wsf, ds) = "DR2_TV"
             THEN IF Len(xf.shape) < 2 THEN Raise("IndexError", <<>>)
                  ELSE Done(y, << [fn |-> "DR2_TV", M |-> xf.shape[1],
                                   N |-> xf.shape[2], unary |-> xf,
                                   W1 |-> Item(wsf, 1), W2 |-> Item(wsf, 2),
                                   norm1 |-> Item(psf, 1),
                                   norm2 |-> Item(psf, 2),
                                   s |-> y, nThreads |-> n_threads,
                                   maxit |-> max_iters,
                                   info |-> zeros(<<_N_INFO>>)] >>,
                            FilledInfo(run))
             ELSE IF tvgen_solver(wsf, ds) = "PD2_TV"
             THEN Done(y, << [fn |-> "PD2_TV", y |-> xf, lambdas |-> wsf,
                              norms |-> psf, dims |-> ds, x |-> y,
                              info |-> zeros(<<_N_INFO>>), ns |-> xf.shape,
                              nds |-> Len(xf.shape), npen |-> 2,
                              ncores |-> n_threads, maxIters |-> max_iters] >>,
                       FilledInfo(run))
             ELSE Done(y, << [fn |-> "PD_TV", y |-> xf, lambdas |-> wsf,
                              norms |-> psf, dims |-> ds, x |-> y,
                              info |-> zeros(<<_N_INFO>>), ns |-> xf.shape,
                              nds |-> Len(xf.shape), npen |-> Len(wsf.vals),
                              ncores |-> n_threads, maxIters |-> max_iters] >>,
                       FilledInfo(run))

(* --------------------------- the state machine ------------------------ *)

\* tvgen's penalty terms are drawn from these (weight, dimension, norm)
\* triples: two valid ones along different axes, one with a negative weight
\* and one with a norm below 1.
PenaltyTerms ==
    { [w |-> 1, d |-> 1, p |-> 1], [w |-> 1, d |-> 2, p |-> 2],
      [w |-> -1, d |-> 1, p |-> 1], [w |-> 1, d |-> 2, p |-> 0] }

Problems == Values(PenaltyTerms, MaxTerms)

\* How the caller hands over ws and ps: as plain lists or as numpy arrays.
PyList == [kind |-> "list", dtype |-> "none"]
NdArray(d) == [kind |-> "ndarray", dtype |-> d]
Containers ==
    { [ws |-> PyList, ps |-> PyList],
      [ws |-> NdArray("float64"), ps |-> NdArray("float64")],
      [ws |-> NdArray("int64"), ps |-> NdArray("float64")],
      [ws |-> NdArray("float64"), ps |-> PyList] }

\* The signals handed to tvgen: float64 tensors with the two largest extents
\* along each axis (no empty axis).
TensorSignals ==
    { x \in Signals :
        /\ x.dtype = "float64"
        /\ \A i \in 1..Len(x.shape) : x.shape[i] >= 1 /\ x.shape[i] >= MaxExtent - 1 }

\* A list with its last element dropped when `cut` says so (to try lists of
\* unequal length).
DropLast(s, cut) == IF cut /\ Len(s) > 0 THEN SubSeq(s, 1, Len(s) - 1) ELSE s

\* Calls are made one at a time (the binding holds no lock and keeps no state):
\* an entry point starts when no call is in progress, runs to its return or
\* its exception in one step, and NextCall hands control back to the caller.
Init ==
    /\ entry = "none"
    /\ args = [x |-> zeros(<<0>>)]
    /\ outcome = "ready"
    /\ native = <<>>
    /\ info = <<>>
    /\ returned = <<>>

tv1_1d ==
    /\ outcome = "ready"
    /\ \E x \in Signals, w \in Weights, sigma \in Sigmas,
       method \in Methods_tv1_1d \cup {"bogus"}, run \in SolverRuns :
        LET r == tv1_1d_call(x, w, sigma, method, run)
        IN  /\ entry' = "tv1_1d"
            /\ args' = [x |-> x, w |-> w, sigma |-> sigma, method |-> method]
            /\ outcome' = r.outcome
            /\ native' = r.native
            /\ info' = r.info
            /\ returned' = r.returned

tv1w_1d ==
    /\ outcome = "ready"
    /\ \E x \in Signals, w \in WeightVectors, sigma \in Sigmas,
       method \in {"tautstring", "pn", "bogus"}, run \in SolverRuns :
        LET r == tv1w_1d_call(x, w, method, sigma, run)
        IN  /\ entry' = "tv1w_1d"
            /\ args' = [x |-> x, w |-> w, method |-> method, sigma |-> sigma]
            /\ outcome' = r.outcome
            /\ native' = r.native
            /\ info' = r.info
            /\ returned' = r.returned

tv2_1d ==
    /\ outcome = "ready"
    /\ \E x \in Signals, w \in Weights,
       method \in Methods_tv2_1d \cup {"bogus"}, run \in SolverRuns :
        LET r == tv2_1d_call(x, w, method, run)
        IN  /\ entry' = "tv2_1d"
            /\ args' = [x |-> x, w |-> w, method |-> method]
            /\ outcome' = r.outcome
            /\ native' = r.native
            /\ info' = r.info
            /\ returned' = r.returned

tvp_1d ==
    /\ outcome = "ready"
    /\ \E x \in Signals, w \in Weights, p \in Norms,
       method \in Methods_tvp_1d \cup {"bogus"}, max_iters \in IterCaps,
       run \in SolverRuns :
        LET r == tvp_1d_call(x, w, p, method, max_iters, run)
        IN  /\ entry' = "tvp_1d"
            /\ args' = [x |-> x, w |-> w, p |-> p, method |-> method, max_iters |-> max_iters]
            /\ outcome' = r.outcome
            /\ native' = r.native
            /\ info' = r.info
            /\ returned' = r.returned

tv1_2d ==
    /\ outcome = "ready"
    /\ \E x \in Signals, w \in Weights, n_threads \in ThreadCounts,
       max_iters \in IterCaps, method \in Methods_tv1_2d \cup {"bogus"},
       run \in SolverRuns :
        LET r == tv1_2d_call(x, w, n_threads, max_iters, method, run)
        IN  /\ entry' = "tv1_2d"
            /\ args' = [x |-> x, w |-> w, n_threads |-> n_threads,
                      max_iters |-> max_iters, method |-> method]
            /\ outcome' = r.outcome
            /\ native' = r.native
            /\ info' = r.info
            /\ returned' = r.returned

tv1w_2d ==
    /\ outcome = "ready"
    /\ \E x \in Signals, lim \in Limits, run \in SolverRuns :
      \E w_col \in WeightMatrices(x), w_row \in WeightMatrices(x) :
        LET max_iters == lim.max_iters
            n_threads == lim.n_threads
            r == tv1w_2d_call(x, w_col, w_row, max_iters, n_threads, run)
        IN  /\ entry' = "tv1w_2d"
            /\ args' = [x |-> x, w_col |-> w_col, w_row |-> w_row,
                        max_iters |-> max_iters, n_threads |-> n_threads]
            /\ outcome' = r.outcome
            /\ native' = r.native
            /\ info' = r.info
            /\ returned' = r.returned

tvp_2d ==
    /\ outcome = "ready"
    /\ \E x \in Signals, w_col \in Weights, w_row \in Weights,
       p_col \in Norms, p_row \in Norms, lim \in Limits, run \in SolverRuns :
        LET n_threads == lim.n_threads
            max_iters == lim.max_iters
            r == tvp_2d_call(x, w_col, w_row, p_col, p_row, n_threads, max_iters, run)
        IN  /\ entry' = "tvp_2d"
            /\ args' = [x |-> x, w_col |-> w_col, w_row |-> w_row, p_col |-> p_col,
                      p_row |-> p_row, n_threads |-> n_threads,
                      max_iters |-> max_iters]
            /\ outcome' = r.outcome
            /\ native' = r.native
            /\ info' = r.info
            /\ returned' = r.returned

tvgen ==
    /\ outcome = "ready"
    /\ \E x \in TensorSignals, terms \in Problems, c \in Containers,
       cut \in {"none", "ds", "ps"}, lim \in Limits, run \in SolverRuns :
        LET n_threads == lim.n_threads
            max_iters == lim.max_iters
            ws == [kind |-> c.ws.kind, dtype |-> c.ws.dtype,
                   vals |-> [i \in 1..Len(terms) |-> terms[i].w]]
            ds == DropLast([i \in 1..Len(terms) |-> terms[i].d], cut = "ds")
            ps == [kind |-> c.ps.kind, dtype |-> c.ps.dtype,
                   vals |-> DropLast([i \in 1..Len(terms) |-> terms[i].p],
                                     cut = "ps")]
            r  == tvgen_call(x, ws, ds, ps, n_threads, max_iters, run)
        IN  /\ entry' = "tvgen"
            /\ args' = [x |-> x, ws |-> ws, ds |-> ds, ps |-> ps,
                        n_threads |-> n_threads, max_iters |-> max_iters]
            /\ outcome' = r.outcome
            /\ native' = r.native
            /\ info' = r.info
            /\ returned' = r.returned

\* The caller takes the result (or the exception); the module keeps no state
\* between calls, so the next call starts as the first one did.
NextCall ==
    /\ outcome # "ready"
    /\ entry' = "none"
    /\ args' = [x |-> zeros(<<0>>)]
    /\ outcome' = "ready"
    /\ native' = <<>>
    /\ info' = <<>>
    /\ returned' = <<>>

Next ==
    \/ tv1_1d
    \/ tv1w_1d
    \/ tv2_1d
    \/ tvp_1d
    \/ tv1_2d
    \/ tv1w_2d
    \/ tvp_2d
    \/ tvgen
    \/ NextCall

Spec == Init /\ [][Next]_vars

(* ------------------------------ claims -------------------------------- *)

OneD == {"tv1_1d", "tv1w_1d", "tv2_1d", "tvp_1d"}

\* The call ended in an exception and no native solver was invoked.
Rejected == outcome \notin {"ready", "returned"} /\ Len(native) = 0

\* The method selectors each family documents.
MethodsOf(e) ==
    CASE e = "tv1_1d"  -> Methods_tv1_1d
      [] e = "tv1w_1d" -> {"tautstring", "pn"}
      [] e = "tv2_1d"  -> Methods_tv2_1d
      [] e = "tvp_1d"  -> Methods_tvp_1d
      [] e = "tv1_2d"  -> Methods_tv1_2d

\* The native solvers whose signature takes the diagnostics buffer `info`.
IterativeSolvers ==
    {"PN_TV1", "PN_TV1_Weighted", "more_TV2", "PG_TV2", "morePG_TV2", "GP_TVp",
     "FW_TVp", "GPFW_TVp", "DR2L1W_TV", "PD2_TV", "DR2_TV",
     "CondatChambollePock2_TV", "Yang2_TV", "PD_TV"}

\* The output buffer among a native invocation's arguments.
OutputOf(c) ==
    CASE c.fn \in {"tautString_TV1", "PN_TV1", "tautString_TV1_Weighted",
                   "more_TV2", "PG_TV2", "morePG_TV2", "GP_TVp", "FW_TVp",
                   "GPFW_TVp", "PD2_TV", "PD_TV"} -> c.x
      [] c.fn \in {"PN_TV1_Weighted", "CondatChambollePock2_TV", "Yang2_TV"} -> c.X
      [] c.fn \in {"DR2_TV", "DR2L1W_TV"} -> c.s
      [] c.fn = "TV1D_denoise" -> c.output
      [] c.fn = "dp" -> c.beta

\* The iteration cap among a native invocation's arguments, if it has one.
HasCap(c) == "maxit" \in DOMAIN c \/ "maxIters" \in DOMAIN c
CapOf(c) == IF "maxit" \in DOMAIN c THEN c.maxit ELSE c.maxIters

RanIterative ==
    outcome = "returned" /\ Len(native) = 1 /\ native[1].fn \in IterativeSolvers

NegativeWeight ==
    CASE entry \in {"tv1_1d", "tv2_1d", "tvp_1d", "tv1_2d"} -> args.w.v < 0
      [] entry = "tv1w_1d" -> ~all_nonneg(args.w)
      [] entry = "tv1w_2d" -> ~all_nonneg_m(args.w_col) \/ ~all_nonneg_m(args.w_row)
      [] entry = "tvp_2d" -> args.w_col.v < 0 \/ args.w_row.v < 0
      [] entry = "tvgen" -> \E i \in 1..Len(args.ws.vals) : args.ws.vals[i] < 0
      [] OTHER -> FALSE

NormBelowOne ==
    CASE entry = "tvp_1d" -> args.p.v < 1
      [] entry = "tvp_2d" -> args.p_col.v < 1 \/ args.p_row.v < 1
      [] entry = "tvgen" -> \E i \in 1..Len(args.ps.vals) : args.ps.vals[i] < 1
      [] OTHER -> FALSE

\* tvgen's specialized pattern: a 2-D signal, one term along each axis.
Pattern2D == Len(args.x.shape) = 2 /\ args.ds = <<1, 2>>

\* C1: tvgen on a 2-D signal with two penalty terms and ds = [1, 2] runs the
\* Douglas-Rachford solver DR2_TV, with ws[0], ws[1], ps[0], ps[1], n_threads
\* and max_iters, and neither PD2_TV nor PD_TV.
C1_DouglasRachfordFor2D ==
    ( /\ entry = "tvgen"
      /\ Pattern2D
      /\ Len(args.ws.vals) = 2 /\ Len(args.ps.vals) = 2
      /\ args.ws.kind = "ndarray" /\ args.ps.kind = "ndarray"
      /\ ~NegativeWeight /\ ~NormBelowOne
      /\ args.n_threads >= 1 /\ args.max_iters >= 0 )
    => /\ outcome = "returned"
       /\ Len(native) = 1
       /\ native[1].fn = "DR2_TV"
       /\ native[1].W1.v = args.ws.vals[1]
       /\ native[1].W2.v = args.ws.vals[2]
       /\ native[1].norm1.v = args.ps.vals[1]
       /\ native[1].norm2.v = args.ps.vals[2]
       /\ native[1].nThreads = args.n_threads
       /\ native[1].maxit = args.max_iters

\* C2: in every entry point with a method selector, a selector outside the
\* family's set is rejected with an error before any native solver runs.
C2_UnknownSelectorRejected ==
    ( /\ entry \in {"tv1_1d", "tv1w_1d", "tv2_1d", "tvp_1d", "tv1_2d"}
      /\ args.method \notin MethodsOf(entry) )
    => Rejected

\* C3: in every entry point, a call with a negative weight or a norm below 1
\* is rejected with an error before any native solver runs.
C3_BadWeightOrNormRejected ==
    ( entry # "none" /\ (NegativeWeight \/ NormBelowOne) ) => Rejected

\* C4 (as stated): a call that ran an iterative solver hands back the
\* diagnostics record the solver filled in together with the solution.
C4_DiagnosticsReturned ==
    RanIterative => ( Len(returned) = 2 /\ returned[2] = info )

\* C4 (amended): a call that ran an iterative solver gave it a 3-slot
\* diagnostics buffer, which the solver filled in, and hands back the
\* solution buffer alone: the diagnostics are not returned.
C4_DiagnosticsDropped ==
    RanIterative =>
        /\ native[1].info.shape = <<3>>
        /\ Len(info) = 3
        /\ returned = << OutputOf(native[1]) >>

\* C4 witness: the solver stopped at the cap (gap 1 in the diagnostics) and
\* the caller received one object only.
C4_Witness ==
    /\ RanIterative
    /\ entry = "tvp_1d"
    /\ info = <<2, 1, 0>>
    /\ Len(returned) = 1

\* C5: in every entry point that accepts max_iters, the caller's value is the
\* iteration cap the native solver receives, 0 included.
C5_IterCapPassedThrough ==
    ( /\ entry \in {"tvp_1d", "tv1_2d", "tv1w_2d", "tvp_2d", "tvgen"}
      /\ args.max_iters >= 0
      /\ outcome = "returned" )
    => /\ Len(native) = 1
       /\ HasCap(native[1])
       /\ CapOf(native[1]) = args.max_iters

\* C6: in every entry point that accepts n_threads or max_iters, a call with
\* n_threads < 1 or max_iters < 0 is rejected before any native solver runs.
C6_BadLimitsRejected ==
    ( /\ entry \in {"tv1_2d", "tv1w_2d", "tvp_2d", "tvgen", "tvp_1d"}
      /\ \/ ("n_threads" \in DOMAIN args /\ args.n_threads < 1)
         \/ args.max_iters < 0 )
    => Rejected

\* The native solver received the caller's ws, ps, ds, signal shape and rank.
C7_ProblemPassed(c) ==
    /\ c.lambdas.vals = args.ws.vals
    /\ c.norms.vals = args.ps.vals
    /\ c.dims = args.ds
    /\ c.ns = args.x.shape
    /\ c.nds = Len(args.x.shape)

\* C7: tvgen picks its solver by the number of penalty terms: two terms
\* outside the specialized 2-D pattern run PD2_TV with npen = 2, three or
\* more run PD_TV with npen = len(ws); a call that returns has invoked
\* exactly that one solver, once, with the caller's ws, ps, ds, shape and rank.
C7_DispatchByTermCount ==
    ( entry = "tvgen" /\ outcome = "returned" ) =>
        /\ ( Len(args.ws.vals) = 2 /\ ~Pattern2D ) =>
             /\ Len(native) = 1
             /\ native[1].fn = "PD2_TV"
             /\ native[1].npen = 2
             /\ C7_ProblemPassed(native[1])
        /\ Len(args.ws.vals) >= 3 =>
             /\ Len(native) = 1
             /\ native[1].fn = "PD_TV"
             /\ native[1].npen = Len(args.ws.vals)
             /\ C7_ProblemPassed(native[1])

\* C7 witness: two terms along the axes in the other order, on a 2-D signal.
C7_Witness ==
    /\ entry = "tvgen"
    /\ outcome = "returned"
    /\ Len(args.x.shape) = 2
    /\ args.ds = <<2, 1>>
    /\ native[1].fn = "PD2_TV"

\* C8 (as stated): the returned array has the shape of the input signal, for
\* every entry point and every signal it accepts.
C8_SameShape ==
    outcome = "returned" => returned[1].shape = args.x.shape

\* C8 (amended): tv1_2d, tv1w_2d, tvp_2d and tvgen return an array of the
\* input's shape; the 1-D entry points return a one-dimensional array of
\* np.size(x) elements, which is the input's shape when the input is
\* one-dimensional.
C8_ShapeOfResult ==
    outcome = "returned" =>
        /\ entry \notin OneD => returned[1].shape = args.x.shape
        /\ entry \in OneD => returned[1].shape = << size(args.x) >>
        /\ ( entry \in OneD /\ Len(args.x.shape) = 1 ) =>
             returned[1].shape = args.x.shape

\* C8 witness: a 1-D entry point took a 2 x 2 signal and returned 4 elements.
C8_Witness ==
    /\ entry = "tv1_1d"
    /\ outcome = "returned"
    /\ args.x.shape = <<2, 2>>
    /\ returned[1].shape = <<4>>

\* C9: tvgen takes ws and ps as plain Python lists: with lists of equal
\* length, n_threads >= 1 and max_iters >= 0 it reaches a native solver and
\* returns.
C9_ListsAccepted ==
    ( /\ entry = "tvgen"
      /\ args.ws.kind = "list" /\ args.ps.kind = "list"
      /\ Len(args.ws.vals) = Len(args.ds)
      /\ Len(args.ws.vals) = Len(args.ps.vals)
      /\ Len(args.ws.vals) >= 1
      /\ ~NegativeWeight /\ ~NormBelowOne
      /\ args.n_threads >= 1 /\ args.max_iters >= 0 )
    => ( outcome = "returned" /\ Len(native) = 1 )

\* The arguments other than the signal are valid for the 1-D entry point.
C10_OtherArgsValid ==
    CASE entry = "tv1_1d"  -> args.method \in Methods_tv1_1d /\ args.w.v >= 0
      [] entry = "tv1w_1d" -> args.method \in {"tautstring", "pn"} /\ all_nonneg(args.w)
      [] entry = "tv2_1d"  -> args.method \in Methods_tv2_1d /\ args.w.v >= 0
      [] entry = "tvp_1d"  -> /\ args.method \in Methods_tvp_1d
                              /\ args.w.v >= 0 /\ args.p.v >= 1
                              /\ args.max_iters >= 0

\* C10: every 1-D entry point, given a zero-length signal and otherwise valid
\* arguments, returns the zero-length signal without raising.
C10_EmptySignalReturned ==
    ( entry \in OneD /\ args.x.shape = <<0>> /\ C10_OtherArgsValid )
    => ( outcome = "returned" /\ returned[1].shape = <<0>> )

====
